---- MODULE Spec2Model ----
(***************************************************************************)
(* Multi-model chat console: the grid send path.                           *)
(*                                                                         *)
(*   PuterUIManager.handleSend  -> PuterChatManager.sendMessageToAllModels *)
(*     -> one PuterChatManager.sendMessageToModel per target model         *)
(*        -> puter.ai.chat (the hosted gateway, an external collaborator)  *)
(*        -> handleStreamingResponseForModel / displayResponseForModel    *)
(*     -> per-model chat window of PuterUIManager                          *)
(*                                                                         *)
(* JavaScript runs one task at a time and suspends only at an await, so   *)
(* every action below is one run-to-completion segment: from the event    *)
(* that resumes a task (a click, a gateway promise settling, a stream      *)
(* yielding) up to the next await of that task.                            *)
(*                                                                         *)
(* Text is a sequence of tokens (the module has no string concatenation). *)
(* A JavaScript value is a record [t |-> typeof-like tag, s |-> text].     *)
(***************************************************************************)
EXTENDS Integers, Sequences, FiniteSets, TLC

\* ------------------------------------------------------------------ bounds
\* number of sends the page accepts in one run
MaxSends == 1
\* number of parts carrying text one stream yields at most
MaxParts == 1

\* ------------------------------------------------------- registry and page
\* puterModelCapabilities: the chat models of the registry, in registry order
AllChatModels == <<"A", "B">>

Registered == {AllChatModels[i] : i \in 1..Len(AllChatModels)}

\* a sidebar item whose data-model names no model of the registry
UnknownModel == "U"

Models == Registered \cup {UnknownModel}

\* the values of data-model of the sidebar's .model-item elements
ModelItems == {"all"} \cup Models

\* the trimmed texts the user can have typed when sending
Messages == {<<>>, <<"q">>}

\* the numbers of images the user can have uploaded when sending
ImageCounts == {0, 1}

\* ------------------------------------------------------------ JS values
Str(s) == [t |-> "string", s |-> s]

JsNull == [t |-> "object", s |-> <<"null">>]

\* truthiness of a value: '' and null are falsy
Truthy(v) == IF v.t = "string" THEN v.s # <<>> ELSE v.s # <<"null">>

\* ------------------------------------------------------------ the gateway
\* descriptions carried by the errors of the gateway, one per call site
ErrS1 == "stream(messages) rejected"
ErrS2 == "stream(fullMessage) rejected"
ErrB1 == "chat(messages) rejected"
ErrB2 == "chat(fullMessage) rejected"
ErrIter == "stream broke"

\* payloads a resolved call can carry: a shape and the text it carries
Payloads ==
  { [shape |-> "string", s |-> <<"a", "\n", "b">>],
    [shape |-> "null", s |-> <<>>] }

\* parts a stream can yield: with a text, with an empty text, without text
Parts == { [text |-> <<"a">>], [text |-> <<>>] }

\* --------------------------------------------------- response normalizer
\* the structural probes of extractContentFromResponse, per payload shape
IsString(p) == p.shape = "string"

\* shapes whose message.content holds a value that is not a text: a nested
\* record {message: {content: {k: 1}}} or a list {message: {content: [1]}}
NonTextContent == {"message.content.record", "message.content.list"}

\* response?.message?.content is truthy (a record or a list always is)
HasMessageContent(p) ==
  \/ p.shape = "message.content" /\ p.s # <<>>
  \/ p.shape \in NonTextContent

\* response.message.content, the value as it is
MessageContentOf(p) ==
  IF p.shape \in NonTextContent THEN [t |-> "object", s |-> p.s] ELSE Str(p.s)

\* response?.toString is a function: every value but null and undefined
\* inherits one (Object.prototype, Array.prototype, Number.prototype)
HasToString(p) == p.shape \notin {"null", "undefined"}

IsArray(p) == p.shape \in {"array.text", "array.typed"}

\* what response.toString() returns (a list payload has one element, an
\* object, so its toString() is that of the element)
ToStringOf(p) ==
  IF p.shape = "string" \/ p.shape = "number" THEN p.s
  ELSE <<"[object Object]">>

\* typeof response
TypeOf(p) ==
  CASE p.shape = "string" -> "string"
    [] p.shape = "number" -> "number"
    [] p.shape = "undefined" -> "undefined"
    [] OTHER -> "object"

\* the field names a payload of shape "record" carries in s
FieldsOf(p) == IF p.shape = "record" THEN {p.s[i] : i \in 1..Len(p.s)} ELSE {}

\* variant: the shapes are probed before toString, and the diagnostic names
\* the runtime type and the fields of a record
extractContentFromResponse_Diagnostic(p) ==
  IF IsString(p) THEN Str(p.s)
  ELSE IF p.shape \notin {"record", "number", "null", "undefined"} /\ p.s # <<>>
  THEN Str(p.s)
  ELSE Str(<<"Received response but could not extract text content. Response type: ",
             TypeOf(p)>> \o p.s)

\* variant: a plain string is returned formatted for display
extractContentFromResponse_Formatted(p) ==
  IF IsString(p)
  THEN Str([i \in 1..Len(p.s) |-> IF p.s[i] = "\n" THEN "<br>" ELSE p.s[i]])
  ELSE IF HasMessageContent(p) THEN MessageContentOf(p)
  ELSE IF HasToString(p) THEN Str(ToStringOf(p))
  ELSE Str(<<"Received response but could not extract text content. Response type: ",
             TypeOf(p)>>)

extractContentFromResponse(p) ==
  IF IsString(p) THEN Str(p.s)
  ELSE IF HasMessageContent(p) THEN MessageContentOf(p)
  ELSE IF HasToString(p) THEN Str(ToStringOf(p))
  ELSE IF IsArray(p) /\ p.s # <<>> THEN Str(p.s)
  ELSE IF p.shape = "array.typed" /\ p.s # <<>> THEN Str(p.s)
  ELSE IF p.shape = "content" /\ p.s # <<>> THEN Str(p.s)
  ELSE IF p.shape = "text" /\ p.s # <<>> THEN Str(p.s)
  ELSE IF p.shape = "choices" /\ p.s # <<>> THEN Str(p.s)
  ELSE IF p.shape = "data.content" /\ p.s # <<>> THEN Str(p.s)
  ELSE IF p.shape = "data.text" /\ p.s # <<>> THEN Str(p.s)
  ELSE IF p.shape = "message" /\ p.s # <<>> THEN Str(p.s)
  ELSE IF p.shape = "response" /\ p.s # <<>> THEN Str(p.s)
  ELSE Str(<<"Received response but could not extract text content. Response type: ",
             TypeOf(p)>>)

\* --------------------------------------------------------------- UI sink
\* content.replace(/\n/g, '<br>')
Br(s) == [i \in 1..Len(s) |-> IF s[i] = "\n" THEN "<br>" ELSE s[i]]

\* PuterUIManager.formatContent (the later of the two definitions in the
\* class body is the one in effect).  The ** * ` replacements match nothing
\* in the token alphabet used here.
formatContent(v) ==
  IF ~Truthy(v) THEN <<>>
  ELSE Br(v.s)

\* The three sink operations act on st = [typing, chatWindows, disp]:
\* typing[m] counts the .typing-indicator nodes of m's window, chatWindows[m]
\* is the sequence of .message nodes of m's window.
\* variant: the indicator is looked up in the whole document, as
\* document.querySelector('.typing-indicator') would, not in m's window
removeTypingIndicator_Document(st, m) ==
  LET shown == {w \in DOMAIN st.chatWindows : st.typing[w] > 0}
  IN IF shown = {} THEN st
     ELSE [st EXCEPT !.typing[CHOOSE w \in shown : \A v \in shown : w = v \/ w # m] = @ - 1]

showTypingIndicator(st, m) ==
  IF m \in DOMAIN st.chatWindows
  THEN [st EXCEPT !.typing[m] = @ + 1]
  ELSE st

removeTypingIndicator(st, m) ==
  IF m \in DOMAIN st.chatWindows /\ st.typing[m] > 0
  THEN [st EXCEPT !.typing[m] = @ - 1]
  ELSE st

AssistantEntry(html) == [role |-> "assistant", html |-> html, images |-> 0]

displayAssistantMessage(st, m, content) ==
  IF m \in DOMAIN st.chatWindows
  THEN [st EXCEPT !.chatWindows[m] = Append(@, AssistantEntry(formatContent(content)))]
  ELSE st

\* the node displayAssistantMessage returns: its position, 0 for null
MessageDivOf(st, m) ==
  IF m \in DOMAIN st.chatWindows THEN Len(st.chatWindows[m]) ELSE 0

\* ----------------------------------------------------------------- state
VARIABLES
  modelStates,   \* PuterUIManager.modelStates: model id -> enabled
  isProcessing,  \* PuterUIManager.isProcessing
  notice,        \* the notification showError raised in the last step, <<>> if
                 \* none (the element is transient: a timer removes it)
  chatWindows,   \* PuterUIManager.chatWindows: model id -> its .message nodes
  typing,        \* model id -> number of .typing-indicator nodes in its window
  sends,         \* number of sends accepted so far
  fan,           \* the running sendMessageToAllModels call, if any
  disp,          \* model id -> the sendMessageToModel call of the last fan-out
  single,        \* window.puterSingleChatManager and its panel
  norm           \* a payload and what the two normalizers returned for it

vars == <<modelStates, isProcessing, notice, chatWindows, typing, sends, fan, disp,
          single, norm>>

\* a sendMessageToModel call that was never made; fragments is the list of
\* the texts of the parts the call's stream has yielded (parts without a text
\* have none)
NoDispatch ==
  [pc |-> "idle", outcome |-> "none", promise |-> "none", message |-> <<>>,
   calls |-> <<>>, ui |-> <<>>, fullContent |-> <<>>, messageDiv |-> 0,
   fragments |-> <<>>]

NoFan == [promise |-> "none", selectedModel |-> "all", modelIds |-> <<>>,
          message |-> <<>>, images |-> 0]

\* PuterSingleChatManager after its constructor, with the locals of the
\* sendMessage call in flight (pc "idle": none) and the gateway calls of the
\* last accepted send.
\*   panel       the .welcome-message and .single-message nodes of the panel
\*   typing      the number of .single-typing-indicator nodes of the panel
\*   indicator   the node sendMessage holds in typingIndicator is attached
\*   messageDiv  position in panel of the node the stream writes to, 0 when
\*               there is none or it is detached
\*   viaUI       the call in flight was made by PuterUIManager.handleSend
\*   accepted    number of sends that passed the three checks of sendMessage
\*   ignored     the last step was a sendMessage call that returned at line 157
\*   streak      number of turns answered since the model was picked, -1 once
\*               a send failed or the model was changed during a send
NoSingle ==
  [currentModel |-> "", chatHistory |-> <<>>, isProcessing |-> FALSE,
   panel |-> <<>>, typing |-> 0,
   pc |-> "idle", message |-> <<>>, messages |-> <<>>, modelName |-> "",
   indicator |-> FALSE, fullContent |-> <<>>, messageDiv |-> 0, viaUI |-> FALSE,
   calls |-> <<>>, accepted |-> 0, ignored |-> FALSE, streak |-> 0]

\* no payload has been handed to the normalizers
NoNorm == [response |-> [shape |-> "none", s |-> <<>>], grid |-> <<>>, single |-> <<>>]

\* after PuterUIManager.init(): generateAllChatWindows made one window per
\* registry chat model and enabled every model
Init ==
  /\ modelStates = [m \in Registered |-> TRUE]
  /\ isProcessing = FALSE
  /\ notice = <<>>
  /\ chatWindows = [m \in Registered |-> <<>>]
  /\ typing = [m \in Registered |-> 0]
  /\ sends = 0
  /\ fan = NoFan
  /\ disp = [m \in Models |-> NoDispatch]
  /\ single = NoSingle
  /\ norm = NoNorm

Sink == [typing |-> typing, chatWindows |-> chatWindows, disp |-> disp]

\* ---------------------------------------------------- gateway requests
\* model.name of a registry model
ModelName(m) == IF m = "A" THEN "Model A" ELSE "Model B"

\* a turn of the conversation or of a request
Turn(role, content) == [role |-> role, content |-> content]

\* the system turn of the structured requests
SystemTurn(name) ==
  Turn("system",
       <<"You are ", name, ". Always identify yourself correctly as ", name,
         " when asked about your identity.",
         " Do not claim to be ChatGPT or any other model.">>)

\* `${systemMessage}\n\nUser: ${message}` of the final fallback
FullMessage(name, message) ==
  <<"You are ", name, ". Always identify yourself correctly as ", name,
    " when asked about your identity.", "\n\nUser: ">> \o message

\* the first argument of a puter.ai.chat call: a list of turns or one text
TurnsRequest(turns) == [kind |-> "messages", turns |-> turns, text |-> <<>>]

TextRequest(text) == [kind |-> "text", turns |-> <<>>, text |-> text]

\* `${systemMessage}\n\nUser: ${message}` of the grid fallbacks
GridFullMessage(name, message) ==
  <<"You are ", name, ". Always identify yourself correctly as ", name,
    " when asked about your identity.",
    " Do not claim to be ChatGPT or any other model.", "\n\nUser: ">> \o message

\* the first argument of the puter.ai.chat call of a tier of sendMessageToModel
GridRequest(tier, m, message) ==
  IF tier \in {"S1", "B1"}
  THEN TurnsRequest(<<SystemTurn(ModelName(m)), Turn("user", message)>>)
  ELSE TextRequest(GridFullMessage(ModelName(m), message))

\* ------------------------------------------------- PuterChatManager
NoPayload == [shape |-> "none", s |-> <<>>]

\* a gateway call as the gateway sees it: its calling convention and argument,
\* and how it went ("pending", "rejected", "value", or for a stream
\* "iterable", then "exhausted" or "threw")
Call(tier, m, message) ==
  [tier |-> tier,
   stream |-> tier \in {"S1", "S2"},
   arg |-> IF tier \in {"S1", "B1"} THEN "messages" ELSE "fullMessage",
   model |-> m,
   message |-> message,
   request |-> GridRequest(tier, m, message),
   result |-> "pending",
   payload |-> NoPayload,
   effects |-> 0]

\* the entries of m's chat window as turns
WindowTurns(st, m) ==
  [i \in 1..Len(st.chatWindows[m]) |->
     Turn(st.chatWindows[m][i].role, st.chatWindows[m][i].html)]

\* variant: the structured requests carry what m's chat window shows, as the
\* focused session's carry its conversation
AwaitChat_WithHistory(st, m, tier) ==
  [st EXCEPT !.disp[m].pc = tier,
             !.disp[m].calls =
                Append(@, [Call(tier, m, st.disp[m].message)
                             EXCEPT !.effects = Len(st.disp[m].ui),
                                    !.request =
                                       IF tier \in {"S1", "B1"} /\ m \in DOMAIN st.chatWindows
                                       THEN TurnsRequest(<<SystemTurn(ModelName(m))>>
                                                         \o WindowTurns(st, m))
                                       ELSE @])]

\* puter.ai.chat(...) is called and awaited; `effects` is the number of calls
\* the dispatch made to puterUIManager before this one to the gateway
AwaitChat(st, m, tier) ==
  [st EXCEPT !.disp[m].pc = tier,
             !.disp[m].calls =
                Append(@, [Call(tier, m, st.disp[m].message)
                             EXCEPT !.effects = Len(st.disp[m].ui)])]

\* the dispatch of m calls puterUIManager.<op>(m, content): the call is
\* recorded whether or not m has a chat window for it to act on
Effect(st, m, op, content) ==
  [st EXCEPT !.disp[m].ui = Append(@, [op |-> op, content |-> content])]

ShowTyping(st, m) ==
  Effect(showTypingIndicator(st, m), m, "showTypingIndicator", <<>>)

RemoveTyping(st, m) ==
  Effect(removeTypingIndicator(st, m), m, "removeTypingIndicator", <<>>)

DisplayMessage(st, m, content) ==
  Effect(displayAssistantMessage(st, m, content), m, "displayAssistantMessage",
         content.s)

\* the awaited call (or the stream it returned) goes on to `result`
Settled(st, m, result) ==
  [st EXCEPT !.disp[m].calls[Len(st.disp[m].calls)].result = result]

Resolved(st, m, p) ==
  [st EXCEPT !.disp[m].calls[Len(st.disp[m].calls)].result = "value",
             !.disp[m].calls[Len(st.disp[m].calls)].payload = p]

\* sendMessageToModel returns: its promise is fulfilled (the locals of
\* handleStreamingResponseForModel are gone)
Return(st, m, outcome) ==
  [st EXCEPT !.disp[m].pc = "done",
             !.disp[m].outcome = outcome,
             !.disp[m].promise = "fulfilled",
             !.disp[m].fullContent = <<>>,
             !.disp[m].messageDiv = 0]

\* variant: the response is displayed under the typing indicator
Display_KeepTyping(st, m, response) ==
  Return(DisplayMessage(st, m, extractContentFromResponse(response)), m, "complete")

\* variant: the response is displayed without being normalized
Display_Raw(st, m, response) ==
  Return(DisplayMessage(RemoveTyping(st, m), m, Str(response.s)), m, "complete")

\* lines 120-122 and displayResponseForModel
Display(st, m, response) ==
  Return(DisplayMessage(RemoveTyping(st, m), m, extractContentFromResponse(response)),
         m, "complete")

\* variant: the catch leaves the typing indicator in place
Catch_KeepTyping(st, m, description) ==
  Return(DisplayMessage(st, m, Str(<<"Error: ">> \o description)), m, "failed")

\* variant: the catch reports the error into every chat window
Catch_AllWindows(st, m, description) ==
  LET s1 == DisplayMessage(RemoveTyping(st, m), m, Str(<<"Error: ">> \o description))
      entry == AssistantEntry(formatContent(Str(<<"Error: ">> \o description)))
  IN Return([s1 EXCEPT !.chatWindows =
                          [w \in DOMAIN st.chatWindows |-> Append(st.chatWindows[w], entry)]],
            m, "failed")

\* the outer catch, lines 124-128
Catch(st, m, description) ==
  Return(DisplayMessage(RemoveTyping(st, m), m, Str(<<"Error: ">> \o description)),
         m, "failed")

ImageText == [shape |-> "string",
              s |-> <<"Image analysis is not supported in this version.">>]

\* variant: attachments are ignored and the text is sent to the gateway
sendMessageToModel_NoImageCheck(st, message, images, m) ==
  LET s0 == [st EXCEPT !.disp[m] = [NoDispatch EXCEPT !.outcome = "pending",
                                                       !.promise = "pending",
                                                       !.message = message]]
      s1 == ShowTyping(s0, m)
  IN IF m \notin Registered THEN Catch(s1, m, <<"Model ", m, " not found">>)
     ELSE AwaitChat(s1, m, "S1")

\* sendMessageToModel from its call to its first await (or to its return)
sendMessageToModel(st, message, images, m) ==
  LET s0 == [st EXCEPT !.disp[m] = [NoDispatch EXCEPT !.outcome = "pending",
                                                       !.promise = "pending",
                                                       !.message = message]]
      s1 == ShowTyping(s0, m)
  IN IF m \notin Registered THEN Catch(s1, m, <<"Model ", m, " not found">>)
     ELSE IF images > 0 THEN Display(s1, m, ImageText)
     ELSE AwaitChat(s1, m, "S1")

\* modelIds.map(modelId => this.sendMessageToModel(...)), left to right
RECURSIVE MapSend(_, _, _, _, _)
MapSend(st, message, images, modelIds, i) ==
  IF i > Len(modelIds) THEN st
  ELSE MapSend(sendMessageToModel(st, message, images, modelIds[i]),
               message, images, modelIds, i + 1)

\* handleStreamingResponseForModel up to the first await of the for-await
handleStreamingResponseForModel(st, m) ==
  LET s1 == DisplayMessage(RemoveTyping(st, m), m, Str(<<>>))
  IN [s1 EXCEPT !.disp[m].pc = "stream",
                !.disp[m].outcome = "streaming",
                !.disp[m].fullContent = <<>>,
                !.disp[m].messageDiv = MessageDivOf(s1, m)]

\* the description of the error a rejected call of this tier carries
ErrOf(tier) ==
  CASE tier = "S1" -> ErrS1
    [] tier = "S2" -> ErrS2
    [] tier = "B1" -> ErrB1
    [] tier = "B2" -> ErrB2

Commit(st) ==
  /\ typing' = st.typing
  /\ chatWindows' = st.chatWindows
  /\ disp' = st.disp

Awaiting(m) == disp[m].pc \in {"S1", "S2", "B1", "B2"}

\* variant: a rejected streaming call falls back to the blocking calls at once
ChatRejects_ThreeTiers(m) ==
  /\ Awaiting(m)
  /\ LET tier == disp[m].pc
         st == Settled(Sink, m, "rejected")
     IN Commit(CASE tier = "S1" -> AwaitChat(st, m, "B1")
                 [] tier = "S2" -> AwaitChat(st, m, "B1")
                 [] tier = "B1" -> AwaitChat(st, m, "B2")
                 [] tier = "B2" -> Catch(st, m, <<ErrOf(tier)>>))
  /\ notice' = <<>>
  /\ UNCHANGED <<modelStates, isProcessing, sends, fan, single, norm>>

\* variant: the rejection of the last call is swallowed and nothing follows
ChatRejects_Hang(m) ==
  /\ Awaiting(m)
  /\ LET tier == disp[m].pc
         st == Settled(Sink, m, "rejected")
     IN Commit(CASE tier = "S1" -> AwaitChat(st, m, "S2")
                 [] tier = "S2" -> AwaitChat(st, m, "B1")
                 [] tier = "B1" -> AwaitChat(st, m, "B2")
                 [] tier = "B2" -> [st EXCEPT !.disp[m].pc = "hung"])
  /\ notice' = <<>>
  /\ UNCHANGED <<modelStates, isProcessing, sends, fan, single, norm>>

\* the awaited puter.ai.chat call of m's dispatch rejects
ChatRejects(m) ==
  /\ Awaiting(m)
  /\ LET tier == disp[m].pc
         st == Settled(Sink, m, "rejected")
     IN Commit(CASE tier = "S1" -> AwaitChat(st, m, "S2")
                 [] tier = "S2" -> AwaitChat(st, m, "B1")
                 [] tier = "B1" -> AwaitChat(st, m, "B2")
                 [] tier = "B2" -> Catch(st, m, <<ErrOf(tier)>>))
  /\ notice' = <<>>
  /\ UNCHANGED <<modelStates, isProcessing, sends, fan, single, norm>>

\* the awaited streaming call resolves with an async iterable
ChatResolvesIterable(m) ==
  /\ disp[m].pc \in {"S1", "S2"}
  /\ Commit(handleStreamingResponseForModel(Settled(Sink, m, "iterable"), m))
  /\ notice' = <<>>
  /\ UNCHANGED <<modelStates, isProcessing, sends, fan, single, norm>>

\* the awaited call resolves with a value that is not an async iterable
ChatResolvesValue(m) ==
  /\ Awaiting(m)
  /\ LET st == Settled(Sink, m, "value")
     IN IF disp[m].pc \in {"S1", "S2"}
        THEN Commit(AwaitChat(st, m, "B1"))
        ELSE \E p \in Payloads : Commit(Display(Resolved(Sink, m, p), m, p))
  /\ notice' = <<>>
  /\ UNCHANGED <<modelStates, isProcessing, sends, fan, single, norm>>

\* variant: the buffer is pushed to the window only when the stream ends
Yield_NoPush(m, part, limit) ==
  /\ disp[m].pc = "stream"
  /\ LET d == disp[m]
         full == d.fullContent \o part.text
     IN IF Truthy(Str(part.text))
        THEN /\ Len(d.fullContent) < limit
             /\ disp' = [disp EXCEPT ![m].fullContent = full,
                                     ![m].fragments = Append(@, part.text)]
             /\ UNCHANGED chatWindows
        ELSE UNCHANGED <<disp, chatWindows>>
  /\ notice' = <<>>
  /\ UNCHANGED <<modelStates, isProcessing, typing, sends, fan, single, norm>>

\* the for-await of handleStreamingResponseForModel receives a part, the
\* buffer holding fewer than `limit` tokens
Yield(m, part, limit) ==
  /\ disp[m].pc = "stream"
  /\ LET d == disp[m]
         full == d.fullContent \o part.text
         s1 == [Sink EXCEPT !.disp[m].fullContent = full,
                            !.disp[m].fragments = Append(@, part.text)]
         s2 == IF d.messageDiv # 0
               THEN Effect([s1 EXCEPT !.chatWindows[m][d.messageDiv].html =
                                         formatContent(Str(full))],
                           m, "innerHTML", formatContent(Str(full)))
               ELSE s1
     IN IF Truthy(Str(part.text))
        THEN /\ Len(d.fullContent) < limit
             /\ disp' = s2.disp
             /\ chatWindows' = s2.chatWindows
        ELSE UNCHANGED <<disp, chatWindows>>
  /\ notice' = <<>>
  /\ UNCHANGED <<modelStates, isProcessing, typing, sends, fan, single, norm>>

StreamYields(m, part) == Yield(m, part, MaxParts)

\* variant: line 85 does not return, the blocking call follows the stream
StreamEnds_FallThrough(m) ==
  /\ disp[m].pc = "stream"
  /\ Commit(AwaitChat(Settled(Sink, m, "exhausted"), m, "B1"))
  /\ notice' = <<>>
  /\ UNCHANGED <<modelStates, isProcessing, sends, fan, single, norm>>

\* the stream is exhausted: handleStreamingResponseForModel and then
\* sendMessageToModel (line 85) return
StreamEnds(m) ==
  /\ disp[m].pc = "stream"
  /\ Commit(Return(Settled(Sink, m, "exhausted"), m, "complete"))
  /\ notice' = <<>>
  /\ UNCHANGED <<modelStates, isProcessing, sends, fan, single, norm>>

\* variant: the catch reports the error in a message of its own
StreamThrows_Append(m) ==
  /\ disp[m].pc = "stream"
  /\ Commit(Return(DisplayMessage(Settled(Sink, m, "threw"), m,
                                   Str(<<"Error: ", ErrIter>>)),
                    m, "failed"))
  /\ notice' = <<>>
  /\ UNCHANGED <<modelStates, isProcessing, sends, fan, single, norm>>

\* variant: the catch reports the error and the blocking call follows
StreamThrows_Blocking(m) ==
  /\ disp[m].pc = "stream"
  /\ LET d == disp[m]
         s1 == Settled(Sink, m, "threw")
         s2 == IF d.messageDiv # 0
               THEN Effect([s1 EXCEPT !.chatWindows[m][d.messageDiv].html =
                                         <<"Error: ", ErrIter>>],
                           m, "innerHTML", <<"Error: ", ErrIter>>)
               ELSE s1
     IN Commit(AwaitChat(s2, m, "B1"))
  /\ notice' = <<>>
  /\ UNCHANGED <<modelStates, isProcessing, sends, fan, single, norm>>

\* the stream raises: the catch of handleStreamingResponseForModel
StreamThrows(m) ==
  /\ disp[m].pc = "stream"
  /\ LET d == disp[m]
         s1 == Settled(Sink, m, "threw")
         s2 == IF d.messageDiv # 0
               THEN Effect([s1 EXCEPT !.chatWindows[m][d.messageDiv].html =
                                         <<"Error: ", ErrIter>>],
                           m, "innerHTML", <<"Error: ", ErrIter>>)
               ELSE s1
     IN Commit(Return(s2, m, "failed"))
  /\ notice' = <<>>
  /\ UNCHANGED <<modelStates, isProcessing, sends, fan, single, norm>>

\* PuterChatManager.getAllChatModels
getAllChatModels == AllChatModels

\* sendMessageToAllModels up to await Promise.allSettled(promises)
sendMessageToAllModels(st, message, images, modelIds) ==
  MapSend(st, message, images, modelIds, 1)

\* variant: the join of Promise.race / Promise.any, settled by the first promise
AllSettled_First(modelIds) ==
  \E i \in 1..Len(modelIds) : disp[modelIds[i]].promise # "pending"

\* Promise.allSettled(promises) is settled once no promise is pending
AllSettled(modelIds) ==
  \A i \in 1..Len(modelIds) : disp[modelIds[i]].promise # "pending"

\* ------------------------------------------------------- PuterUIManager
isModelEnabled(m) ==
  IF m \in DOMAIN modelStates THEN modelStates[m] # FALSE ELSE TRUE

UserEntry(message, images) ==
  [role |-> "user", html |-> formatContent(Str(message)), images |-> images]

\* displayUserMessageInAllWindows
RECURSIVE displayUserMessageInAllWindows(_, _, _, _, _)
displayUserMessageInAllWindows(st, message, images, models, i) ==
  IF i > Len(models) THEN st
  ELSE LET m == models[i]
           s1 == IF m \in DOMAIN st.chatWindows
                 THEN [st EXCEPT !.chatWindows[m] =
                                    Append(@, UserEntry(message, images))]
                 ELSE st
       IN displayUserMessageInAllWindows(s1, message, images, models, i + 1)

NoMessageNotice == <<"Please enter a message or upload an image">>

\* variant: handleSend does not test isProcessing
HandleSend_NoGuard(limit, items) ==
  /\ UNCHANGED <<single, norm>>
  /\ \E message \in Messages, images \in ImageCounts, item \in items :
       IF message = <<>> /\ images = 0
       THEN /\ notice' = NoMessageNotice
            /\ UNCHANGED <<modelStates, isProcessing, chatWindows, typing, sends,
                           fan, disp>>
       ELSE /\ sends < limit
            /\ LET modelsToUse == IF item = "all" THEN getAllChatModels ELSE <<item>>
                   s0 == [Sink EXCEPT !.disp = [m \in Models |-> NoDispatch]]
                   s1 == displayUserMessageInAllWindows(s0, message, images,
                                                        modelsToUse, 1)
               IN /\ Commit(sendMessageToAllModels(s1, message, images, modelsToUse))
                  /\ fan' = [promise |-> "pending", selectedModel |-> item,
                             modelIds |-> modelsToUse,
                             message |-> message, images |-> images]
            /\ isProcessing' = TRUE
            /\ sends' = sends + 1
            /\ notice' = <<>>
            /\ UNCHANGED modelStates

\* handleSend from the click to await sendMessageToAllModels(...), for at
\* most `limit` accepted sends and with the sidebar selection among `items`
HandleSend(limit, items) ==
  /\ UNCHANGED <<single, norm>>
  /\ IF isProcessing
       THEN /\ notice' = <<>>
            /\ UNCHANGED <<modelStates, isProcessing, chatWindows, typing, sends,
                           fan, disp>>
       ELSE \E message \in Messages, images \in ImageCounts, item \in items :
       IF message = <<>> /\ images = 0
       THEN /\ notice' = NoMessageNotice
            /\ UNCHANGED <<modelStates, isProcessing, chatWindows, typing, sends,
                           fan, disp>>
       ELSE /\ sends < limit
            /\ LET modelsToUse == IF item = "all" THEN getAllChatModels ELSE <<item>>
                   s0 == [Sink EXCEPT !.disp = [m \in Models |-> NoDispatch]]
                   s1 == displayUserMessageInAllWindows(s0, message, images,
                                                        modelsToUse, 1)
               IN /\ Commit(sendMessageToAllModels(s1, message, images, modelsToUse))
                  /\ fan' = [promise |-> "pending", selectedModel |-> item,
                             modelIds |-> modelsToUse,
                             message |-> message, images |-> images]
            /\ isProcessing' = TRUE
            /\ sends' = sends + 1
            /\ notice' = <<>>
            /\ UNCHANGED modelStates

handleSend == HandleSend(MaxSends, ModelItems)

\* await Promise.allSettled resumes, sendMessageToAllModels returns and the
\* finally of handleSend runs
FanOutSettles ==
  /\ fan.promise = "pending"
  /\ AllSettled(fan.modelIds)
  /\ fan' = [fan EXCEPT !.promise = "fulfilled"]
  /\ isProcessing' = FALSE
  /\ notice' = <<>>
  /\ UNCHANGED <<modelStates, chatWindows, typing, sends, disp, single, norm>>

\* the toggle button of m's chat window
toggleModelState(m) ==
  /\ m \in DOMAIN chatWindows
  /\ LET newState == ~modelStates[m]
     IN /\ modelStates' = [modelStates EXCEPT ![m] = newState]
        /\ typing' = IF newState THEN typing
                     ELSE removeTypingIndicator(Sink, m).typing
  /\ notice' = <<>>
  /\ UNCHANGED <<isProcessing, chatWindows, sends, fan, disp, single, norm>>

\* the change listener of the settings checkbox of m, and the
\* updateChatWindowToggle it calls.  The checkbox is rendered from
\* isModelEnabled and kept equal to it by updateSettingsToggle, so the change
\* event carries the negation of the current state.
SettingsToggle(m) ==
  /\ m \in DOMAIN modelStates
  /\ LET isEnabled == ~isModelEnabled(m)
     IN /\ modelStates' = [modelStates EXCEPT ![m] = isEnabled]
        /\ typing' = IF isEnabled THEN typing
                     ELSE removeTypingIndicator(Sink, m).typing
  /\ notice' = <<>>
  /\ UNCHANGED <<isProcessing, chatWindows, sends, fan, disp, single, norm>>

Next ==
  \/ handleSend
  \/ \E m \in Models : ChatRejects(m)
  \/ \E m \in Models : ChatResolvesIterable(m)
  \/ \E m \in Models : ChatResolvesValue(m)
  \/ \E m \in Models, part \in Parts : StreamYields(m, part)
  \/ \E m \in Models : StreamEnds(m)
  \/ \E m \in Models : StreamThrows(m)
  \/ FanOutSettles
  \/ \E m \in Models : toggleModelState(m)
  \/ \E m \in Models : SettingsToggle(m)

Spec == Init /\ [][Next]_vars

\* the gateway settles the call m's dispatch awaits
ChatSettles(m) == ChatRejects(m) \/ ChatResolvesIterable(m) \/ ChatResolvesValue(m)

\* the stream m's dispatch consumes ends or raises
StreamCloses(m) == StreamEnds(m) \/ StreamThrows(m)

\* every awaited call settles, every stream ends or raises, and the event
\* loop resumes the join once it is settled
FairSpec ==
  /\ Spec
  /\ \A m \in Models : WF_vars(ChatSettles(m)) /\ WF_vars(StreamCloses(m))
  /\ WF_vars(FanOutSettles)

\* =================================================================
\* Repeated sends to one model of the grid
\* =================================================================
\* bound: number of sends accepted with model "A" selected in the sidebar
MaxRepeat == 2

handleSendToSelected == HandleSend(MaxRepeat, {"A"})

RepeatNext ==
  \/ handleSendToSelected
  \/ \E m \in Models : ChatRejects(m)
  \/ \E m \in Models : ChatResolvesIterable(m)
  \/ \E m \in Models : ChatResolvesValue(m)
  \/ \E m \in Models, part \in Parts : StreamYields(m, part)
  \/ \E m \in Models : StreamEnds(m)
  \/ \E m \in Models : StreamThrows(m)
  \/ FanOutSettles

RepeatSpec == Init /\ [][RepeatNext]_vars

\* =================================================================
\* Two streams side by side
\* =================================================================
\* bound: tokens a stream yields in all
MaxStream == 2

\* parts a stream can yield: two different texts, one of them a line break,
\* and a part without text
StreamParts == { [text |-> <<"a">>], [text |-> <<"\n">>], [text |-> <<>>] }

handleSendToAll == HandleSend(1, {"all"})

StreamYieldsPart(m, part) == Yield(m, part, MaxStream)

StreamNext ==
  \/ handleSendToAll
  \/ \E m \in Models : ChatRejects(m)
  \/ \E m \in Models : ChatResolvesIterable(m)
  \/ \E m \in Models : ChatResolvesValue(m)
  \/ \E m \in Models, part \in StreamParts : StreamYieldsPart(m, part)
  \/ \E m \in Models : StreamEnds(m)
  \/ \E m \in Models : StreamThrows(m)
  \/ FanOutSettles

StreamSpec == Init /\ [][StreamNext]_vars

\* =================================================================
\* The two normalizers as functions of the payload
\* =================================================================
\* PuterSingleChatManager.extractContentFromResponse: the same probes in the
\* same order as the one of PuterChatManager
\* variant: the shapes are probed before toString is tried
singleExtractContentFromResponse_ShapesFirst(p) ==
  IF IsString(p) THEN Str(p.s)
  ELSE IF HasMessageContent(p) THEN MessageContentOf(p)
  ELSE IF p.shape \notin {"record", "number", "null", "undefined"} /\ p.s # <<>>
  THEN Str(p.s)
  ELSE IF HasToString(p) THEN Str(ToStringOf(p))
  ELSE Str(<<"Received response but could not extract text content. Response type: ",
             TypeOf(p)>>)

singleExtractContentFromResponse(p) ==
  IF IsString(p) THEN Str(p.s)
  ELSE IF HasMessageContent(p) THEN MessageContentOf(p)
  ELSE IF HasToString(p) THEN Str(ToStringOf(p))
  ELSE IF IsArray(p) /\ p.s # <<>> THEN Str(p.s)
  ELSE IF p.shape = "array.typed" /\ p.s # <<>> THEN Str(p.s)
  ELSE IF p.shape = "content" /\ p.s # <<>> THEN Str(p.s)
  ELSE IF p.shape = "text" /\ p.s # <<>> THEN Str(p.s)
  ELSE IF p.shape = "choices" /\ p.s # <<>> THEN Str(p.s)
  ELSE IF p.shape = "data.content" /\ p.s # <<>> THEN Str(p.s)
  ELSE IF p.shape = "data.text" /\ p.s # <<>> THEN Str(p.s)
  ELSE IF p.shape = "message" /\ p.s # <<>> THEN Str(p.s)
  ELSE IF p.shape = "response" /\ p.s # <<>> THEN Str(p.s)
  ELSE Str(<<"Received response but could not extract text content. Response type: ",
             TypeOf(p)>>)

\* the shapes the branches of extractContentFromResponse are written for:
\*   "string"           "hi"
\*   "message.content"  {message: {content: "hi"}}
\*   "array.text"       [{text: "hi"}]
\*   "array.typed"      [{type: "text", text: "hi"}]
\*   "content"          {content: "hi"}
\*   "text"             {text: "hi"}
\*   "choices"          {choices: [{message: {content: "hi"}}]}
\*   "data.content"     {data: {content: "hi"}}
\*   "data.text"        {data: {text: "hi"}}
\*   "message"          {message: "hi"}
\*   "response"         {response: "hi"}
SupportedShapes ==
  {"string", "message.content", "array.text", "array.typed", "content", "text",
   "choices", "data.content", "data.text", "message", "response"}

\* the texts a payload carries
Texts == {<<>>, <<"hi">>, <<"x">>, <<"a", "\n", "b">>}

\* payloads of no supported shape: the records {foo: 1, bar: 2} and {} (s holds
\* the field names), the number 1, null and undefined
OtherPayloads ==
  { [shape |-> "record", s |-> <<"foo", "bar">>],
    [shape |-> "record", s |-> <<>>],
    [shape |-> "number", s |-> <<"1">>],
    [shape |-> "null", s |-> <<>>],
    [shape |-> "undefined", s |-> <<>>] }

\* payloads with a field holding a value that is not a text (s is what the
\* value's toString() gives): {message: {content: {k: 1}}},
\* {message: {content: [1]}}, and {content: {k: 1}}, {text: {k: 1}},
\* {message: {k: 1}}, {response: {k: 1}}
NonTextPayloads ==
  { [shape |-> "message.content.record", s |-> <<"[object Object]">>],
    [shape |-> "message.content.list", s |-> <<"1">>],
    [shape |-> "content.record", s |-> <<"[object Object]">>],
    [shape |-> "text.record", s |-> <<"[object Object]">>],
    [shape |-> "message.record", s |-> <<"[object Object]">>],
    [shape |-> "response.record", s |-> <<"[object Object]">>] }

NormPayloads ==
  {[shape |-> sh, s |-> t] : sh \in SupportedShapes, t \in Texts}
    \cup OtherPayloads \cup NonTextPayloads

NormInit ==
  /\ modelStates = [m \in Registered |-> TRUE]
  /\ isProcessing = FALSE
  /\ notice = <<>>
  /\ chatWindows = [m \in Registered |-> <<>>]
  /\ typing = [m \in Registered |-> 0]
  /\ sends = 0
  /\ fan = NoFan
  /\ disp = [m \in Models |-> NoDispatch]
  /\ single = NoSingle
  /\ norm \in {[NoNorm EXCEPT !.response = p] : p \in NormPayloads}

\* puterChatManager.extractContentFromResponse(response) is called
ExtractGrid ==
  /\ norm.grid = <<>>
  /\ norm' = [norm EXCEPT !.grid = <<extractContentFromResponse(norm.response)>>]
  /\ UNCHANGED <<modelStates, isProcessing, notice, chatWindows, typing, sends,
                 fan, disp, single>>

\* puterSingleChatManager.extractContentFromResponse(response) is called
ExtractSingle ==
  /\ norm.single = <<>>
  /\ norm' = [norm EXCEPT !.single = <<singleExtractContentFromResponse(norm.response)>>]
  /\ UNCHANGED <<modelStates, isProcessing, notice, chatWindows, typing, sends,
                 fan, disp, single>>

NormNext == ExtractGrid \/ ExtractSingle

NormSpec == NormInit /\ [][NormNext]_vars

\* =================================================================
\* The focused chat session: PuterSingleChatManager
\*
\*   PuterUIManager.handleSend (single chat branch)
\*     -> PuterSingleChatManager.sendMessage -> puter.ai.chat
\*     -> handleStreamingResponse / displayAssistantMessage
\*   the model select -> PuterSingleChatManager.handleModelChange
\* =================================================================
\* bound: number of sends the session accepts
MaxTurns == 3

\* what the input box can hold; " " is white space
FocusedMessages == {<<>>, <<" ">>, <<"q">>}

\* String.prototype.trim
RECURSIVE TrimStart(_)
TrimStart(s) == IF s # <<>> /\ Head(s) = " " THEN TrimStart(Tail(s)) ELSE s

RECURSIVE TrimEnd(_)
TrimEnd(s) ==
  IF s # <<>> /\ s[Len(s)] = " " THEN TrimEnd(SubSeq(s, 1, Len(s) - 1)) ELSE s

Trim(s) == TrimEnd(TrimStart(s))

\* the values handleModelChange is called with: the placeholder option "",
\* the options of the registry models, and an id the registry does not hold
ModelOptions == {""} \cup Models

\* a gateway call of the session and how it went
SingleCall(tier, request) ==
  [tier |-> tier, stream |-> tier = "S", request |-> request, result |-> "pending"]

\* what the blocking calls of the session resolve with
FocusedPayloads == { [shape |-> "string", s |-> <<"a", "\n", "b">>] }

\* PuterSingleChatManager.formatContent
singleFormatContent(content) == IF content = <<>> THEN <<>> ELSE Br(content)

\* a node of the messages container
Node(class, badge, html) == [class |-> class, badge |-> badge, html |-> html]

WelcomeNode == Node("welcome", "Single LLM Chat", <<>>)

singleShowError(message) == <<message>>

\* The operators below act on the record `single`.
showWelcomeMessage(s) ==
  [s EXCEPT !.panel = <<WelcomeNode>>, !.typing = 0, !.indicator = FALSE,
            !.messageDiv = 0]

\* variant: only the panel is cleared
clearChat_PanelOnly(s) ==
  [s EXCEPT !.panel = <<>>, !.typing = 0, !.indicator = FALSE, !.messageDiv = 0]

\* PuterSingleChatManager.clearChat
clearChat(s) ==
  [s EXCEPT !.chatHistory = <<>>, !.panel = <<>>, !.typing = 0,
            !.indicator = FALSE, !.messageDiv = 0]

showModelSelectedMessage(s, modelId) ==
  IF modelId \notin Registered THEN s
  ELSE [s EXCEPT !.panel = <<Node("welcome", ModelName(modelId), <<>>)>>]

displayUserMessage(s, message) ==
  [s EXCEPT !.panel = Append(@, Node("user", "You", singleFormatContent(message)))]

singleDisplayAssistantMessage(s, content) ==
  LET modelName == IF s.currentModel \in Registered THEN ModelName(s.currentModel)
                   ELSE "AI Assistant"
  IN [s EXCEPT !.panel = Append(@, Node("assistant", modelName,
                                        singleFormatContent(content)))]

singleShowTypingIndicator(s) ==
  [s EXCEPT !.typing = @ + 1, !.indicator = TRUE]

\* typingIndicator.remove() on the node sendMessage holds
RemoveIndicator(s) ==
  IF s.indicator THEN [s EXCEPT !.typing = @ - 1, !.indicator = FALSE] ELSE s

\* puter.ai.chat(request, ...) is called and awaited
singleAwaitChat(s, tier, request) ==
  [s EXCEPT !.pc = tier, !.calls = Append(@, SingleCall(tier, request))]

singleSettled(s, result) ==
  [s EXCEPT !.calls[Len(s.calls)].result = result]

\* variant: the finally block does not reset the flag
Finally_KeepFlag(s, ok) ==
  [s EXCEPT !.pc = "idle", !.message = <<>>, !.messages = <<>>,
            !.modelName = "", !.indicator = FALSE, !.fullContent = <<>>,
            !.messageDiv = 0, !.viaUI = FALSE,
            !.streak = IF ok /\ @ >= 0 THEN @ + 1 ELSE -1]

\* the finally of sendMessage, lines 246-248, and its return; ok tells
\* whether the turn was answered
Finally(s, ok) ==
  [s EXCEPT !.isProcessing = FALSE,
            !.pc = "idle", !.message = <<>>, !.messages = <<>>,
            !.modelName = "", !.indicator = FALSE, !.fullContent = <<>>,
            !.messageDiv = 0, !.viaUI = FALSE,
            !.streak = IF ok /\ @ >= 0 THEN @ + 1 ELSE -1]

\* variant: the error text is recorded as the assistant's turn
singleCatch_Push(s, description) ==
  LET s1 == IF s.typing > 0 THEN [s EXCEPT !.typing = @ - 1] ELSE s
      s2 == singleDisplayAssistantMessage(s1, <<"Error: ">> \o description)
  IN Finally([s2 EXCEPT !.chatHistory =
                           Append(@, Turn("assistant", <<"Error: ">> \o description))],
             FALSE)

\* the catch of sendMessage, lines 236-245
singleCatch(s, description) ==
  LET s1 == IF s.typing > 0 THEN [s EXCEPT !.typing = @ - 1] ELSE s
      s2 == singleDisplayAssistantMessage(s1, <<"Error: ">> \o description)
  IN Finally(s2, FALSE)

\* lines 224-234
singleDisplay(s, response) ==
  LET content == singleExtractContentFromResponse(response).s
      s1 == singleDisplayAssistantMessage(RemoveIndicator(s), content)
  IN Finally([s1 EXCEPT !.chatHistory = Append(@, Turn("assistant", content))], TRUE)

\* lines 201-207 and handleStreamingResponse up to the first await of the
\* for-await
handleStreamingResponse(s) ==
  LET s1 == singleDisplayAssistantMessage(RemoveIndicator(s), <<>>)
  IN [s1 EXCEPT !.pc = "stream", !.fullContent = <<>>,
                !.messageDiv = Len(s1.panel)]

\* variant: the structured requests carry only the newest message
Accept_NewestOnly(s, message, viaUI) ==
  LET welcome == SelectSeq(s.panel, LAMBDA n : n.class # "welcome")
      s1 == displayUserMessage([s EXCEPT !.isProcessing = TRUE, !.panel = welcome,
                                         !.accepted = @ + 1, !.calls = <<>>,
                                         !.ignored = FALSE,
                                         !.message = message, !.viaUI = viaUI],
                               message)
      s2 == singleShowTypingIndicator(
              [s1 EXCEPT !.chatHistory = Append(@, Turn("user", message))])
  IN IF s.currentModel \notin Registered
     THEN singleCatch(s2, <<"Selected model not found">>)
     ELSE LET name == ModelName(s.currentModel)
              messages == <<SystemTurn(name), Turn("user", message)>>
          IN singleAwaitChat([s2 EXCEPT !.messages = messages, !.modelName = name],
                             "S", TurnsRequest(messages))

\* sendMessage from line 160 to its first await (or to its return)
Accept(s, message, viaUI) ==
  LET welcome == SelectSeq(s.panel, LAMBDA n : n.class # "welcome")
      s1 == displayUserMessage([s EXCEPT !.isProcessing = TRUE, !.panel = welcome,
                                         !.accepted = @ + 1, !.calls = <<>>,
                                         !.ignored = FALSE,
                                         !.message = message, !.viaUI = viaUI],
                               message)
      s2 == singleShowTypingIndicator(
              [s1 EXCEPT !.chatHistory = Append(@, Turn("user", message))])
  IN IF s.currentModel \notin Registered
     THEN singleCatch(s2, <<"Selected model not found">>)
     ELSE LET name == ModelName(s.currentModel)
              messages == <<SystemTurn(name)>> \o s2.chatHistory
          IN singleAwaitChat([s2 EXCEPT !.messages = messages, !.modelName = name],
                             "S", TurnsRequest(messages))

\* the grid state is not touched by the focused session
GridUnchanged == UNCHANGED <<modelStates, chatWindows, typing, sends, fan, disp, norm>>

\* variant: sendMessage without the isProcessing check of lines 156-158
sendMessage_NoSingleFlight(s, message, viaUI) ==
  IF s.currentModel = ""
  THEN [s |-> [s EXCEPT !.ignored = FALSE],
        notice |-> singleShowError("Please select a model first")]
  ELSE IF Trim(message) = <<>>
  THEN [s |-> [s EXCEPT !.ignored = FALSE],
        notice |-> singleShowError("Please enter a message")]
  ELSE [s |-> Accept(s, message, viaUI), notice |-> <<>>]

\* PuterSingleChatManager.sendMessage from its call to its first await (or to
\* its return): the session after it and the notification it raised
sendMessage(s, message, viaUI) ==
  IF s.currentModel = ""
  THEN [s |-> [s EXCEPT !.ignored = FALSE],
        notice |-> singleShowError("Please select a model first")]
  ELSE IF Trim(message) = <<>>
  THEN [s |-> [s EXCEPT !.ignored = FALSE],
        notice |-> singleShowError("Please enter a message")]
  ELSE IF s.isProcessing
  THEN [s |-> [s EXCEPT !.ignored = TRUE], notice |-> <<>>]
  ELSE [s |-> Accept(s, message, viaUI), notice |-> <<>>]

\* PuterUIManager.isProcessing after a step of the session: the finally of
\* handleSend runs when the sendMessage call it awaits returns
UIFlagAfter(s) == IF single.viaUI /\ s.pc = "idle" THEN FALSE ELSE isProcessing

FocusedInit ==
  /\ modelStates = [m \in Registered |-> TRUE]
  /\ isProcessing = FALSE
  /\ notice = <<>>
  /\ chatWindows = [m \in Registered |-> <<>>]
  /\ typing = [m \in Registered |-> 0]
  /\ sends = 0
  /\ fan = NoFan
  /\ disp = [m \in Models |-> NoDispatch]
  /\ single = showWelcomeMessage(NoSingle)
  /\ norm = NoNorm

\* the change event of the model select
handleModelChange(modelId) ==
  /\ modelId # single.currentModel
  /\ single' =
       IF modelId = ""
       THEN showWelcomeMessage([single EXCEPT !.currentModel = "", !.ignored = FALSE,
                                              !.streak = IF single.pc = "idle" THEN @ ELSE -1])
       ELSE showModelSelectedMessage(
              clearChat([single EXCEPT !.currentModel = modelId, !.ignored = FALSE,
                                       !.streak = IF single.pc = "idle" THEN 0 ELSE -1]),
              modelId)
  /\ notice' = <<>>
  /\ UNCHANGED isProcessing
  /\ GridUnchanged

\* variant: handleSend validates the input before it looks at isProcessing
handleSendResult_ValidateFirst(busy, s, raw, images) ==
  LET message == Trim(raw)
      quiet == [s EXCEPT !.ignored = FALSE]
  IN IF message = <<>> /\ images = 0
     THEN [s |-> quiet, isProcessing |-> busy, notice |-> NoMessageNotice]
     ELSE IF busy
     THEN [s |-> quiet, isProcessing |-> busy, notice |-> <<>>]
     ELSE LET r == sendMessage(s, message, TRUE)
          IN [s |-> r.s, isProcessing |-> r.s.viaUI /\ r.s.pc # "idle",
              notice |-> r.notice]

\* PuterUIManager.handleSend while the single chat panel is active, from the
\* click to the await of sendMessage (or through its finally, when sendMessage
\* returns without awaiting): the session, PuterUIManager.isProcessing and the
\* notification after it.  busy is PuterUIManager.isProcessing at the click,
\* raw the text of the input box, images the number of uploaded images.
handleSendResult(busy, s, raw, images) ==
  LET message == Trim(raw)
      quiet == [s EXCEPT !.ignored = FALSE]
  IN IF busy
     THEN [s |-> quiet, isProcessing |-> busy, notice |-> <<>>]
     ELSE IF message = <<>> /\ images = 0
     THEN [s |-> quiet, isProcessing |-> busy, notice |-> NoMessageNotice]
     ELSE LET r == sendMessage(s, message, TRUE)
          IN [s |-> r.s, isProcessing |-> r.s.viaUI /\ r.s.pc # "idle",
              notice |-> r.notice]

\* the send button or the Enter key while the single chat panel is active
handleSendSingle ==
  /\ \E raw \in FocusedMessages, images \in ImageCounts :
       LET r == handleSendResult(isProcessing, single, raw, images)
       IN /\ r.s.accepted <= MaxTurns
          /\ single' = r.s
          /\ isProcessing' = r.isProcessing
          /\ notice' = r.notice
  /\ GridUnchanged

\* puterSingleChatManager.sendMessage(message) called on the global instance
\* by other code than handleSend
SendMessageCalled(message) ==
  /\ LET r == sendMessage(single, message, FALSE)
     IN /\ r.s.accepted <= MaxTurns
        /\ single' = r.s
        /\ notice' = r.notice
  /\ UNCHANGED isProcessing
  /\ GridUnchanged

singleAwaiting == single.pc \in {"S", "B1", "B2"}

\* the step of the session that ends in state s
SessionStep(s) ==
  /\ single' = [s EXCEPT !.ignored = FALSE]
  /\ isProcessing' = UIFlagAfter(s)
  /\ notice' = <<>>
  /\ GridUnchanged

\* variant: the final fallback resends the whole conversation as text
singleChatRejects_FullFallback ==
  /\ singleAwaiting
  /\ LET s == singleSettled(single, "rejected")
     IN SessionStep(
          CASE single.pc = "S" -> singleAwaitChat(s, "B1", TurnsRequest(s.messages))
            [] single.pc = "B1" ->
                 singleAwaitChat(s, "B2", TurnsRequest(s.messages))
            [] single.pc = "B2" -> singleCatch(s, <<ErrB2>>))

\* the awaited puter.ai.chat call of the session rejects
singleChatRejects ==
  /\ singleAwaiting
  /\ LET s == singleSettled(single, "rejected")
     IN SessionStep(
          CASE single.pc = "S" -> singleAwaitChat(s, "B1", TurnsRequest(s.messages))
            [] single.pc = "B1" ->
                 singleAwaitChat(s, "B2",
                                 TextRequest(FullMessage(s.modelName, s.message)))
            [] single.pc = "B2" -> singleCatch(s, <<ErrB2>>))

\* the awaited streaming call resolves with an async iterable
singleChatResolvesIterable ==
  /\ single.pc = "S"
  /\ SessionStep(handleStreamingResponse(singleSettled(single, "iterable")))

\* the awaited call resolves with a value that is not an async iterable
singleChatResolvesValue ==
  /\ singleAwaiting
  /\ LET s == singleSettled(single, "value")
     IN IF single.pc = "S"
        THEN SessionStep(singleAwaitChat(s, "B1", TurnsRequest(s.messages)))
        ELSE \E p \in FocusedPayloads : SessionStep(singleDisplay(s, p))

\* the for-await of handleStreamingResponse receives a part
singleStreamYields(part) ==
  /\ single.pc = "stream"
  /\ IF part.text # <<>>
     THEN /\ Len(single.fullContent) < MaxParts
          /\ LET full == single.fullContent \o part.text
                 s1 == [single EXCEPT !.fullContent = full]
             IN SessionStep(IF single.messageDiv # 0
                            THEN [s1 EXCEPT !.panel[single.messageDiv].html =
                                               singleFormatContent(full)]
                            ELSE s1)
     ELSE SessionStep(single)

\* the stream is exhausted: line 280, then sendMessage returns (line 208)
singleStreamEnds ==
  /\ single.pc = "stream"
  /\ LET s == singleSettled(single, "exhausted")
     IN SessionStep(Finally([s EXCEPT !.chatHistory =
                                         Append(@, Turn("assistant", s.fullContent))],
                            TRUE))

\* the stream raises: the catch of handleStreamingResponse, lines 282-290
singleStreamThrows ==
  /\ single.pc = "stream"
  /\ LET s == singleSettled(single, "threw")
     IN SessionStep(Finally(IF single.messageDiv # 0
                            THEN [s EXCEPT !.panel[single.messageDiv].html =
                                              <<"Error: ", ErrIter>>]
                            ELSE s,
                            FALSE))

GatewaySettles ==
  singleChatRejects \/ singleChatResolvesIterable \/ singleChatResolvesValue

StreamSettles == singleStreamEnds \/ singleStreamThrows

FocusedNext ==
  \/ \E modelId \in ModelOptions : handleModelChange(modelId)
  \/ handleSendSingle
  \/ \E message \in FocusedMessages : SendMessageCalled(message)
  \/ singleChatRejects
  \/ singleChatResolvesIterable
  \/ singleChatResolvesValue
  \/ \E part \in Parts : singleStreamYields(part)
  \/ singleStreamEnds
  \/ singleStreamThrows

FocusedSpec == FocusedInit /\ [][FocusedNext]_vars

\* every gateway call is eventually resolved or rejected and every stream
\* eventually ends or raises
FairFocusedSpec ==
  FocusedSpec /\ WF_vars(GatewaySettles) /\ WF_vars(StreamSettles)

\* =================================================================
\* Properties
\* =================================================================
\* the targets of the last fan-out
Targets == {fan.modelIds[i] : i \in 1..Len(fan.modelIds)}

HasWindow(m) == m \in DOMAIN chatWindows

InFlight(m) == disp[m].pc \in {"S1", "S2", "B1", "B2", "stream"}

\* the nodes m's window gained after the user message of the last send to it
ThisSend(m) ==
  LET w == chatWindows[m]
      u == {i \in 1..Len(w) : w[i].role = "user"}
  IN IF u = {} THEN w
     ELSE SubSeq(w, (CHOOSE i \in u : \A j \in u : j <= i) + 1, Len(w))

IsErrorText(html) == Len(html) > 0 /\ html[1] = "Error: "

LastCall(m) == disp[m].calls[Len(disp[m].calls)]

\* every transport attempt of m's dispatch was rejected
EveryAttemptFailed(m) ==
  /\ disp[m].calls # <<>>
  /\ \A i \in 1..Len(disp[m].calls) : disp[m].calls[i].result = "rejected"

\* every gateway call of m's dispatch resolved, and its stream, if any, ended
EveryCallSucceeded(m) ==
  /\ disp[m].calls # <<>>
  /\ \A i \in 1..Len(disp[m].calls) : disp[m].calls[i].result \in {"value", "exhausted"}

\* C1. Fan-out isolation: when every transport attempt of one target fails
\* and every gateway call of every other target succeeds, the join of the
\* fan-out is settled, the failing target ended failed with exactly an error
\* message in its own window, and every other target ended complete with one
\* message in its window that is no error text.
C1_FanOutIsolation ==
  \A b \in Targets :
    (EveryAttemptFailed(b) /\ \A m \in Targets \ {b} : EveryCallSucceeded(m)) =>
      /\ AllSettled(fan.modelIds)
      /\ fan.promise \in {"pending", "fulfilled"}
      /\ disp[b].outcome = "failed"
      /\ HasWindow(b) => /\ Len(ThisSend(b)) = 1
                         /\ IsErrorText(ThisSend(b)[1].html)
      /\ \A m \in Targets \ {b} :
           /\ disp[m].outcome = "complete"
           /\ HasWindow(m) => /\ Len(ThisSend(m)) = 1
                              /\ ~IsErrorText(ThisSend(m)[1].html)

C1_Witness ==
  \E b \in Targets, m \in Targets :
    /\ b # m
    /\ EveryAttemptFailed(b)
    /\ EveryCallSucceeded(m)
    /\ HasWindow(b) /\ HasWindow(m)
    /\ fan.promise = "fulfilled"

\* C2. sendMessageToAllModels never rejects, and it has settled only when
\* every dispatch it launched is terminal (complete or failed).
C2_SettlesAfterAll ==
  /\ fan.promise # "rejected"
  /\ fan.promise = "fulfilled" =>
       \A m \in Targets : /\ disp[m].pc = "done"
                          /\ disp[m].outcome \in {"complete", "failed"}

C2_Witness ==
  /\ fan.promise = "fulfilled"
  /\ \E m \in Targets : disp[m].outcome = "failed"
  /\ \E m \in Targets : disp[m].outcome = "complete"

\* C3. Core isolation: a step that resumes the in-flight dispatch of model m
\* leaves the dispatch, the typing indicator and the window content of every
\* other model unchanged; and the step that launches a fan-out changes no
\* window and no indicator of a model that is not one of its targets.
C3_Isolation ==
  [][/\ \A m \in Models :
          (InFlight(m) /\ disp'[m] # disp[m]) =>
             \A o \in Models \ {m} :
               /\ disp'[o] = disp[o]
               /\ HasWindow(o) => /\ typing'[o] = typing[o]
                                  /\ chatWindows'[o] = chatWindows[o]
     /\ (fan.promise # "pending" /\ fan'.promise = "pending") =>
          \A o \in Models :
            (\A i \in 1..Len(fan'.modelIds) : fan'.modelIds[i] # o) /\ HasWindow(o)
              => /\ typing'[o] = typing[o]
                 /\ chatWindows'[o] = chatWindows[o]
    ]_vars

C3_Witness ==
  \E a \in Models, b \in Models :
    /\ a # b
    /\ disp[a].pc = "stream" /\ disp[a].fullContent # <<>>
    /\ disp[b].pc = "B2"
    /\ typing[b] = 1

\* the last call of m's dispatch was a blocking call and resolved
BlockingSucceeded(m) ==
  /\ disp[m].calls # <<>>
  /\ ~LastCall(m).stream
  /\ LastCall(m).result = "value"

\* C4. Transport fallback: once the streaming call of a dispatch was
\* rejected, nothing is shown in the model's window while the dispatch awaits
\* a fallback call, and when a blocking call resolves the dispatch is
\* complete and the window shows exactly the normalized blocking result.
C4_TransportFallback ==
  \A m \in Models :
    (disp[m].calls # <<>> /\ disp[m].calls[1].result = "rejected") =>
      /\ Awaiting(m) => /\ disp[m].outcome = "pending"
                        /\ HasWindow(m) => ThisSend(m) = <<>>
      /\ BlockingSucceeded(m) =>
           /\ disp[m].pc = "done"
           /\ disp[m].outcome = "complete"
           /\ HasWindow(m) =>
                ThisSend(m) = <<AssistantEntry(formatContent(
                                  extractContentFromResponse(LastCall(m).payload)))>>
           /\ HasWindow(m) => ~IsErrorText(ThisSend(m)[1].html)

C4_Witness ==
  \E m \in Models :
    /\ HasWindow(m)
    /\ BlockingSucceeded(m)
    /\ disp[m].calls[1].result = "rejected"
    /\ LastCall(m).payload.shape = "null"

Rank(tier) ==
  CASE tier = "S1" -> 1
    [] tier = "S2" -> 2
    [] tier = "B1" -> 3
    [] tier = "B2" -> 4

\* C5 as stated: a dispatch goes through three tiers in order, each at most
\* once (streaming with the turn sequence, blocking with the turn sequence,
\* blocking with the flattened text): at most three gateway calls, and no
\* streaming call with the flattened text.
C5_ThreeTiers ==
  \A m \in Models :
    LET c == disp[m].calls
    IN /\ Len(c) <= 3
       /\ \A i \in 1..Len(c) : ~(c[i].stream /\ c[i].arg = "fullMessage")
       /\ \A i \in 1..Len(c) : \A j \in 1..Len(c) :
            i < j => Rank(c[i].tier) < Rank(c[j].tier)

\* C5 as amended: a dispatch goes through four tiers in order, each at most
\* once: streaming with the turn sequence; streaming with the flattened
\* text, tried exactly when the first streaming call was rejected; blocking
\* with the turn sequence, tried when the streaming call before it was
\* rejected or resolved with something that is no stream; blocking with the
\* flattened text, tried exactly when the blocking call before it was
\* rejected.  A dispatch issues at most four gateway calls.
C5_FourTiers ==
  \A m \in Models :
    LET c == disp[m].calls
    IN /\ Len(c) <= 4
       /\ c # <<>> => c[1].tier = "S1"
       /\ \A i \in 1..Len(c) :
            /\ c[i].stream = (c[i].tier \in {"S1", "S2"})
            /\ c[i].arg = (IF c[i].tier \in {"S1", "B1"} THEN "messages"
                                                         ELSE "fullMessage")
            /\ c[i].message = disp[m].message
       /\ \A i \in 2..Len(c) :
            /\ Rank(c[i - 1].tier) < Rank(c[i].tier)
            /\ (c[i - 1].tier = "S1" /\ c[i - 1].result = "rejected")
                 <=> c[i].tier = "S2"
            /\ c[i].tier = "B1" =>
                 /\ c[i - 1].stream
                 /\ c[i - 1].result \in {"rejected", "value"}
            /\ c[i].tier = "B2" =>
                 /\ c[i - 1].tier = "B1"
                 /\ c[i - 1].result = "rejected"

C5_Witness ==
  \E m \in Models :
    /\ Len(disp[m].calls) = 4
    /\ disp[m].calls[2].stream
    /\ disp[m].calls[2].arg = "fullMessage"
    /\ disp[m].calls[4].result = "value"

\* C6. Stream exhaustion: the step in which the stream of a dispatch ends
\* makes the dispatch complete, leaves in the model's window the accumulated
\* buffer (formatted) in the message node of the stream, and issues no
\* gateway call; and once a dispatch is over its call log changes only with
\* the next send.
C6_StreamExhaustion ==
  [][\A m \in Models :
       /\ (/\ disp[m].pc = "stream"
           /\ Len(disp'[m].calls) >= Len(disp[m].calls)
           /\ disp'[m].calls[Len(disp[m].calls)].result = "exhausted")
          => /\ disp'[m].pc = "done"
             /\ disp'[m].outcome = "complete"
             /\ Len(disp'[m].calls) = Len(disp[m].calls)
             /\ \A i \in 1..Len(disp[m].calls) :
                  disp'[m].calls[i].tier = disp[m].calls[i].tier
             /\ HasWindow(m) =>
                  /\ Len(ThisSend(m)) = 1
                  /\ ThisSend(m)[1].html = formatContent(Str(disp[m].fullContent))
                  /\ chatWindows'[m] = chatWindows[m]
       /\ (disp[m].pc = "done" /\ disp'[m].calls # disp[m].calls) => fan' # fan
    ]_vars

C6_Witness ==
  \E m \in Models :
    /\ HasWindow(m)
    /\ disp[m].pc = "done"
    /\ disp[m].outcome = "complete"
    /\ disp[m].calls # <<>>
    /\ LastCall(m).result = "exhausted"
    /\ Len(ThisSend(m)) = 1
    /\ ThisSend(m)[1].html # <<>>

\* the description of the error that ended m's dispatch
LastErrorOf(m) ==
  IF m \notin Registered THEN <<"Model ", m, " not found">>
  ELSE <<ErrOf(LastCall(m).tier)>>

C7_WitnessUnresolved ==
  \E m \in Models \ Registered : disp[m].pc = "done" /\ disp[m].outcome = "failed"

\* the calls of m's dispatch to the interface that deliver text to the window
Delivers(e) == e.op \in {"displayAssistantMessage", "innerHTML"}

\* C8. The first effect of every dispatch is showTypingIndicator for its
\* model, made before any gateway call; every delivery of text by the
\* dispatch comes after its removeTypingIndicator; and while the window of
\* the model shows the text of a streaming or complete dispatch, it shows no
\* typing indicator.
C8_TypingBrackets ==
  \A m \in Models :
    disp[m].pc # "idle" =>
      LET ui == disp[m].ui
      IN /\ ui # <<>>
         /\ ui[1].op = "showTypingIndicator"
         /\ \A i \in 1..Len(disp[m].calls) : disp[m].calls[i].effects >= 1
         /\ \A j \in 1..Len(ui) :
              Delivers(ui[j]) => \E k \in 1..(j - 1) : ui[k].op = "removeTypingIndicator"
         /\ disp[m].outcome = "complete" => \E j \in 1..Len(ui) : Delivers(ui[j])
         /\ (HasWindow(m) /\ disp[m].outcome \in {"streaming", "complete"}) =>
              /\ typing[m] = 0
              /\ ThisSend(m) # <<>>

C8_Witness ==
  \E a \in Models, b \in Models :
    /\ HasWindow(a) /\ HasWindow(b)
    /\ disp[a].outcome = "complete"
    /\ disp[a].calls # <<>> /\ LastCall(a).result = "exhausted"
    /\ disp[b].outcome = "complete"
    /\ disp[b].calls # <<>> /\ LastCall(b).result = "value"
    /\ modelStates[a] /\ modelStates[b]

C10_DisabledExcluded ==
  [][/\ (fan' # fan /\ fan'.promise = "pending" /\ fan'.selectedModel = "all") =>
          {fan'.modelIds[i] : i \in 1..Len(fan'.modelIds)}
            = {m \in Registered : isModelEnabled(m)}
     /\ \A m \in DOMAIN modelStates :
          (modelStates[m] /\ ~modelStates'[m]) => chatWindows'[m] = chatWindows[m]
    ]_vars

\* a token of the text
Contains(text, token) == \E i \in 1..Len(text) : text[i] = token

\* the text names the runtime type: "[object Object]" has "object" in it
NamesType(text, type) ==
  Contains(text, type) \/ (type = "object" /\ Contains(text, "[object Object]"))

\* C19 as stated: for every payload of a supported shape that carries a text,
\* each of the two normalizers returns exactly that text.
C19_SupportedShapes ==
  (norm.response.shape \in SupportedShapes /\ norm.response.s # <<>>) =>
     /\ norm.grid # <<>> => norm.grid[1] = Str(norm.response.s)
     /\ norm.single # <<>> => norm.single[1] = Str(norm.response.s)

UserNodes(panel) == Len(SelectSeq(panel, LAMBDA n : n.class = "user"))

\* C11: a sendMessage call made while an earlier send of the session is still
\* awaiting its response is a no-op: while isProcessing is set no send is
\* accepted, and the call that returns at the isProcessing check leaves the
\* conversation, the panel (so no user message is displayed for it) and the
\* gateway calls issued as they were.
C11_SingleFlight ==
  [][ single.isProcessing =>
        /\ single'.accepted = single.accepted
        /\ single'.ignored =>
              /\ single'.chatHistory = single.chatHistory
              /\ Len(single'.chatHistory) = Len(single.chatHistory)
              /\ single'.panel = single.panel
              /\ UserNodes(single'.panel) = UserNodes(single.panel)
              /\ single'.calls = single.calls
              /\ single'.isProcessing /\ single'.pc = single.pc ]_vars

\* a second send was made and ignored while the first awaits the gateway
C11_Witness ==
  /\ single.ignored
  /\ single.pc \in {"S", "B1", "B2", "stream"}
  /\ single.accepted = 1
  /\ Len(single.chatHistory) = 1
  /\ Len(single.calls) >= 1

\* C12: when a send is accepted after k answered turns with the same model
\* (k >= 0, no failed send and no change of model since the model was
\* picked), the turns of its first gateway call are 1 + 2k + 1: the system
\* turn, the 2k earlier turns (user, assistant, ...) in order, and the new user
\* turn last.
C12_ContextPropagation ==
  [][ ( /\ single'.accepted = single.accepted + 1
        /\ single.streak >= 0
        /\ single'.calls # <<>> ) =>
      LET k == single.streak
          first == single'.calls[1]
          turns == first.request.turns
      IN /\ first.tier = "S" /\ first.request.kind = "messages"
         /\ Len(turns) = 1 + 2 * k + 1
         /\ turns[1] = SystemTurn(ModelName(single.currentModel))
         /\ Len(single.chatHistory) = 2 * k
         /\ \A i \in 1..(2 * k) :
               /\ turns[i + 1] = single.chatHistory[i]
               /\ turns[i + 1].role = IF i % 2 = 1 THEN "user" ELSE "assistant"
         /\ turns[Len(turns)] = Turn("user", single'.message) ]_vars

\* the third send after two answered turns: six turns go to the gateway
C12_Witness ==
  /\ single.pc = "S"
  /\ single.streak = 2
  /\ single.accepted = 3
  /\ Len(single.calls) = 1
  /\ Len(single.calls[1].request.turns) = 6
  /\ single.calls[1].request.turns[6] = Turn("user", <<"q">>)

\* the session as sendMessage or handleSend left it is the session s: the
\* conversation, the gateway calls, the panel and the flags are those of s
SameSession(t, s) == [t EXCEPT !.ignored = FALSE] = [s EXCEPT !.ignored = FALSE]

\* a sendMessage call with no model selected or with a blank message shows a
\* notice, issues no gateway call and leaves the conversation and the flags
FocusedValidation ==
  \A message \in FocusedMessages, viaUI \in BOOLEAN :
    (single.currentModel = "" \/ Trim(message) = <<>>) =>
      LET r == sendMessage(single, message, viaUI)
      IN /\ r.notice # <<>>
         /\ r.s.calls = single.calls
         /\ r.s.chatHistory = single.chatHistory
         /\ r.s.isProcessing = single.isProcessing
         /\ SameSession(r.s, single)

\* C13 as stated: a send with no model selected (sendMessage), with a blank
\* message (sendMessage), or with an empty message and no uploaded images
\* (handleSend) shows a validation notice, issues no gateway call, and leaves
\* the conversation and the processing flags unchanged.
C13_ValidationNotice ==
  /\ FocusedValidation
  /\ \A raw \in FocusedMessages :
       Trim(raw) = <<>> =>
         LET r == handleSendResult(isProcessing, single, raw, 0)
         IN /\ r.notice # <<>>
            /\ r.isProcessing = isProcessing
            /\ SameSession(r.s, single)

\* C13, amended: as stated for sendMessage; handleSend with an empty message
\* and no uploaded images shows the notice when no send is being processed
\* (PuterUIManager.isProcessing is false), and returns without any notice when
\* one is; in both cases no gateway call is issued and the conversation and
\* the processing flags are unchanged.
C13_ValidationUnlessBusy ==
  /\ FocusedValidation
  /\ \A raw \in FocusedMessages :
       Trim(raw) = <<>> =>
         LET r == handleSendResult(isProcessing, single, raw, 0)
         IN /\ r.notice = IF isProcessing THEN <<>> ELSE NoMessageNotice
            /\ r.isProcessing = isProcessing
            /\ r.s.calls = single.calls
            /\ SameSession(r.s, single)

\* the model select is on its placeholder and a send was refused with a notice
C13_Witness ==
  /\ notice = singleShowError("Please select a model first")
  /\ single.currentModel = ""
  /\ single.calls = <<>>
  /\ ~single.isProcessing /\ ~isProcessing

\* a model was picked in the model select (not its placeholder)
ModelPicked == single'.currentModel # single.currentModel /\ single'.currentModel # ""

\* C14: chatHistory changes only by a turn appended at its end, the turns it
\* held staying as they were, or by being emptied when a model is picked;
\* right after any pick of a model it is empty.
C14_AppendOrClear ==
  [][ LET old == single.chatHistory
          new == single'.chatHistory
      IN /\ \/ new = old
            \/ Len(new) = Len(old) + 1 /\ SubSeq(new, 1, Len(old)) = old
            \/ new = <<>> /\ ModelPicked
         /\ ModelPicked => new = <<>> ]_vars

\* a model was picked after a send: the conversation that held the user's
\* turn is empty again
C14_Witness ==
  /\ single.accepted >= 1
  /\ single.chatHistory = <<>>
  /\ single.currentModel \in Registered
  /\ single.panel = <<Node("welcome", ModelName(single.currentModel), <<>>)>>

\* the panel shows an error entry
ErrorShown(panel) ==
  \E i \in 1..Len(panel) : panel[i].class = "assistant" /\ IsErrorText(panel[i].html)

\* no turn of the sequence carries an error text
NoErrorTurn(turns) == \A i \in 1..Len(turns) : ~IsErrorText(turns[i].content)

\* this step is the failure of a send: the last transport rejected, the
\* stream raised, or the model was not found
AllTransportsFailed ==
  single.pc = "B2" /\ single'.pc = "idle" /\ single'.calls[Len(single'.calls)].result = "rejected"

StreamRaised ==
  single.pc = "stream" /\ single'.pc = "idle" /\ single'.calls[Len(single'.calls)].result = "threw"

ModelNotFound == single'.accepted = single.accepted + 1 /\ single'.pc = "idle"

\* the failing step shows the error and adds no turn for it
FailureStep ==
  /\ AllTransportsFailed =>
       ( /\ ErrorShown(single'.panel)
         /\ single'.panel[Len(single'.panel)].html = <<"Error: ", ErrB2>>
         /\ single'.chatHistory = single.chatHistory )
  /\ StreamRaised =>
       ( /\ single.messageDiv # 0 =>
              ( /\ ErrorShown(single'.panel)
                /\ single'.panel[single.messageDiv].html = <<"Error: ", ErrIter>> )
         /\ single'.chatHistory = single.chatHistory )
  /\ ModelNotFound =>
       ( /\ ErrorShown(single'.panel)
         /\ single'.panel[Len(single'.panel)].html =
               <<"Error: ", "Selected model not found">>
         /\ Len(single'.chatHistory) = Len(single.chatHistory) + 1
         /\ SubSeq(single'.chatHistory, 1, Len(single.chatHistory)) =
               single.chatHistory
         /\ single'.chatHistory[Len(single'.chatHistory)].role = "user" )

WouldAccept(message) ==
  \A viaUI \in BOOLEAN :
    LET r == sendMessage(single, message, viaUI)
    IN /\ r.s.accepted = single.accepted + 1
       /\ r.s.chatHistory = Append(single.chatHistory, Turn("user", message))

\* C16: every accepted send sets isProcessing, and it stays set for as long
\* as the send awaits the gateway or the stream; provided each gateway call
\* eventually resolves or rejects and each stream eventually ends or raises,
\* isProcessing is eventually reset, whether the send succeeded or failed;
\* and whenever it is reset (and a model is selected) a send with a non-blank
\* message is accepted again.
C16_ReturnsToIdle ==
  /\ [](single.isProcessing <=> single.pc # "idle")
  /\ [][single'.accepted = single.accepted + 1 =>
          (single'.isProcessing \/ ModelNotFound)]_vars
  /\ (single.isProcessing ~> ~single.isProcessing)
  /\ []((~single.isProcessing /\ single.currentModel # "") =>
          \A message \in FocusedMessages : Trim(message) # <<>> => WouldAccept(message))

\* two sends were accepted one after the other: one was answered, one failed,
\* and the session is idle again
C16_Witness ==
  /\ single.accepted = 2
  /\ ~single.isProcessing /\ single.pc = "idle"
  /\ Len(single.chatHistory) = 3
  /\ ErrorShown(single.panel)
  /\ single.calls # <<>>

\* the token sequence part occurs in text
ContainsSeq(text, part) ==
  \E j \in 0..(Len(text) - Len(part)) : SubSeq(text, j + 1, j + Len(part)) = part

\* the request carries every turn of the conversation, in order: as its turns
\* after the system turn, or, for a flattened request, in its text
Carries(request, conversation) ==
  IF request.kind = "messages"
  THEN /\ Len(request.turns) = Len(conversation) + 1
       /\ \A i \in 1..Len(conversation) : request.turns[i + 1] = conversation[i]
  ELSE \A i \in 1..Len(conversation) : ContainsSeq(request.text, conversation[i].content)

\* a send awaits the gateway and chatHistory is the conversation it was made
\* with: nothing is appended while the send awaits, and a model picked
\* meanwhile leaves chatHistory empty
SendAwaits == singleAwaiting /\ single.chatHistory # <<>>

\* C17 as stated: every gateway request of a send, in whichever tier
\* (streaming, blocking, flattened fallback), carries the whole conversation.
C17_EveryTierWholeConversation ==
  SendAwaits =>
    \A i \in 1..Len(single.calls) : Carries(single.calls[i].request, single.chatHistory)

\* C17, amended: the structured requests of a send (the streaming call and
\* the first blocking call) carry the system turn and then the whole
\* conversation, the newest user message last; the flattened final fallback
\* carries the system instruction and the newest message only.
C17_StructuredWholeFallbackNewest ==
  SendAwaits =>
    \A i \in 1..Len(single.calls) :
      LET c == single.calls[i]
      IN IF c.tier \in {"S", "B1"}
         THEN /\ c.request.kind = "messages"
              /\ Carries(c.request, single.chatHistory)
              /\ c.request.turns[1].role = "system"
              /\ c.request.turns[Len(c.request.turns)] = Turn("user", single.message)
         ELSE /\ c.tier = "B2"
              /\ c.request.kind = "text"
              /\ c.request.text = FullMessage(single.modelName, single.message)
              /\ Len(c.request.text) = 6 + Len(single.message)

\* the second send of a conversation reached the final fallback: its first
\* two requests hold the first exchange, the third does not
C17_Witness ==
  /\ single.pc = "B2"
  /\ Len(single.calls) = 3
  /\ Len(single.chatHistory) = 3
  /\ single.chatHistory[2] = Turn("assistant", <<"a", "\n", "b">>)
  /\ Len(single.calls[1].request.turns) = 4
  /\ Len(single.calls[2].request.turns) = 4
  /\ ~ContainsSeq(single.calls[3].request.text, single.chatHistory[2].content)

\* ------------------------------------------------------- grid requests
\* C18: in grid mode every structured request of a dispatch has exactly two
\* turns, the system turn naming the target model and then the new user
\* message, however many messages were sent to that model before; no text of
\* an earlier entry of the model's chat window is in it.
C18_GridTwoTurns ==
  \A m \in Models : \A i \in 1..Len(disp[m].calls) :
    LET c == disp[m].calls[i]
    IN c.arg = "messages" =>
         /\ c.request.kind = "messages"
         /\ Len(c.request.turns) = 2
         /\ c.request.turns[1] = SystemTurn(ModelName(m))
         /\ c.request.turns[1].role = "system"
         /\ Contains(c.request.turns[1].content, ModelName(m))
         /\ c.request.turns[2] = Turn("user", fan.message)

\* the second send to model A: its window shows the first exchange and the
\* new message, the request holds two turns
C18_Witness ==
  /\ sends = 2
  /\ disp["A"].pc = "B1"
  /\ Len(chatWindows["A"]) = 3
  /\ chatWindows["A"][2].role = "assistant"
  /\ Len(disp["A"].calls) >= 2
  /\ Len(disp["A"].calls[1].request.turns) = 2

\* ------------------------------------------------------- the normalizers
\* C21: for every payload whatsoever, among them null, undefined, numbers and
\* records whose message.content, content, text, message or response field
\* holds a record or a list, extractContentFromResponse (of either manager)
\* returns a value of string type.
C21_AlwaysString ==
  /\ norm.grid # <<>> => norm.grid[1].t = "string"
  /\ norm.single # <<>> => norm.single[1].t = "string"

\* C22: for every plain string s, the empty string among them,
\* extractContentFromResponse(s) = s, and applying it to its own output
\* returns that output again.
C22_IdempotentOnText ==
  (norm.response.shape = "string" /\ norm.grid # <<>>) =>
     /\ norm.grid[1] = Str(norm.response.s)
     /\ extractContentFromResponse([shape |-> "string", s |-> norm.grid[1].s])
          = norm.grid[1]

\* the empty string went through the normalizer
C22_Witness ==
  /\ norm.response = [shape |-> "string", s |-> <<>>]
  /\ norm.grid = <<Str(<<>>)>>

\* C30: the grid normalizer and the focused-chat normalizer return the same
\* result for every payload.
C30_NormalizersAgree ==
  /\ (norm.grid # <<>> /\ norm.single # <<>>) => norm.grid = norm.single
  /\ \A p \in NormPayloads :
       extractContentFromResponse(p) = singleExtractContentFromResponse(p)

\* both normalizers were given {text: "hi"} and both answered with the
\* payload's toString()
C30_Witness ==
  /\ norm.response = [shape |-> "text", s |-> <<"hi">>]
  /\ norm.grid = <<Str(<<"[object Object]">>)>>
  /\ norm.single = norm.grid

\* ------------------------------------- the focused session, model picks
\* C25: under any interleaving of model picks and sends, a model picked
\* while a send awaits its response among them, every turn of chatHistory
\* comes from a send issued after the last pick: an assistant turn is appended
\* only behind the user turn of the send it answers.
C25_NoStaleTurns ==
  [][ LET old == single.chatHistory
          new == single'.chatHistory
      IN (Len(new) = Len(old) + 1 /\ new[Len(new)].role = "assistant") =>
           /\ old # <<>>
           /\ old[Len(old)] = Turn("user", single.message) ]_vars

\* C26: whenever no send of the session is in flight, chatHistory alternates
\* user, assistant, user, assistant, ..., beginning with a user turn and
\* ending with an assistant turn, whatever sends succeeded or failed before.
C26_Alternates ==
  single.pc = "idle" =>
    /\ Len(single.chatHistory) % 2 = 0
    /\ \A i \in 1..Len(single.chatHistory) :
         single.chatHistory[i].role = IF i % 2 = 1 THEN "user" ELSE "assistant"

\* ------------------------------------------------ the grid, streaming
RECURSIVE Concat(_)
Concat(texts) == IF texts = <<>> THEN <<>> ELSE Head(texts) \o Concat(Tail(texts))

IsPrefix(a, b) == Len(a) <= Len(b) /\ SubSeq(b, 1, Len(a)) = a

Streaming(m) == disp[m].pc = "stream" /\ disp[m].messageDiv # 0

\* the .message-content of the in-progress message of m's stream
Shown(m) == chatWindows[m][disp[m].messageDiv].html

\* a step of m's stream that leaves it running shows what was shown before,
\* with or without more text behind it; the step that ends it shows the
\* rendering of every fragment in receipt order
StreamStep(m) ==
  Streaming(m) =>
    /\ disp'[m].pc = "stream" =>
          /\ disp'[m].messageDiv = disp[m].messageDiv
          /\ IsPrefix(Shown(m), chatWindows'[m][disp[m].messageDiv].html)
    /\ (disp'[m].pc = "done" /\ disp'[m].outcome = "complete") =>
          /\ disp'[m].fragments = disp[m].fragments
          /\ chatWindows'[m][disp[m].messageDiv].html
                = formatContent(Str(Concat(disp[m].fragments)))

StreamSteps == \A m \in Models : StreamStep(m)

Terminal(m) == disp[m].pc = "done" /\ disp[m].outcome \in {"complete", "failed"}

\* a dispatch that has ended stays as it ended until the next send replaces it
StaysTerminal ==
  \A m \in Models : (Terminal(m) /\ sends' = sends) => disp'[m] = disp[m]

\* C24: every dispatch that was started reaches a terminal outcome, complete
\* or failed, and keeps it, provided every gateway call settles and every
\* stream ends or raises; and so every fan-out settles.
C24_DispatchesTerminate ==
  /\ \A m \in Models : (disp[m].promise = "pending") ~> Terminal(m)
  /\ [][StaysTerminal]_vars
  /\ (fan.promise = "pending") ~> (fan.promise = "fulfilled")

\* a fan-out settled after one dispatch failed on the rejection of all four
\* calls and the other completed from a stream
C24_Witness ==
  /\ fan.promise = "fulfilled"
  /\ disp["A"].outcome = "failed" /\ Len(disp["A"].calls) = 4
  /\ disp["B"].outcome = "complete" /\ disp["B"].fragments # <<>>

\* --------------------------------------------- the grid, after a send
\* the displayAssistantMessage calls m's dispatch made
Displayed(m) ==
  {i \in 1..Len(disp[m].ui) : disp[m].ui[i].op = "displayAssistantMessage"}

\* m's window ends with the user entry of the send and one assistant entry
OneAnswer(m) ==
  LET w == chatWindows[m]
  IN /\ Len(w) >= 2
     /\ w[Len(w) - 1] = UserEntry(fan.message, fan.images)
     /\ w[Len(w)].role = "assistant"
     /\ disp[m].outcome = "failed" => SubSeq(w[Len(w)].html, 1, 1) = <<"Error: ">>

\* C28: once the fan-out of a send has settled, the window of every target
\* model that has one holds, behind the user entry of the send, exactly one
\* assistant entry (the response, or one error message) and no typing
\* indicator, whichever way the dispatch went.
C28_OneEntryNoIndicator ==
  fan.promise = "fulfilled" =>
    \A m \in Targets \cap DOMAIN chatWindows :
      /\ OneAnswer(m)
      /\ Cardinality(Displayed(m)) = 1
      /\ typing[m] = 0

\* a fan-out settled after the stream of A raised behind a part and all four
\* calls for B were rejected
C28_Witness ==
  /\ fan.promise = "fulfilled"
  /\ Targets = {"A", "B"}
  /\ disp["A"].fragments # <<>>
  /\ disp["A"].calls[Len(disp["A"].calls)].result = "threw"
  /\ Len(disp["B"].calls) = 4 /\ disp["B"].outcome = "failed"

\* --------------------------------------------- the grid, broken stream
\* the stream of m raises
Breaks(m) ==
  /\ disp[m].pc = "stream"
  /\ disp'[m].calls[Len(disp[m].calls)].result = "threw"

\* the step in which m's stream raises ends the dispatch with no further
\* call, the returned promise fulfilled, and the in-progress message holding
\* the error description in place of what was shown
BreakEndsDispatch ==
  \A m \in Models :
    Breaks(m) =>
      /\ disp'[m].calls = [disp[m].calls EXCEPT ![Len(disp[m].calls)].result = "threw"]
      /\ disp'[m].pc = "done"
      /\ disp'[m].outcome = "failed"
      /\ disp'[m].promise = "fulfilled"
      /\ m \in DOMAIN chatWindows =>
            /\ Len(chatWindows'[m]) = Len(chatWindows[m])
            /\ chatWindows'[m] = [chatWindows[m] EXCEPT ![disp[m].messageDiv].html =
                                     <<"Error: ", ErrIter>>]

\* C29: a stream that raises while it is consumed, after any number of parts,
\* ends its dispatch: no further gateway call is made, the in-progress
\* message shows the error description instead of the text received, and
\* sendMessageToModel returns normally; and nothing is called for that
\* dispatch afterwards.
C29_BrokenStreamEnds ==
  /\ [][BreakEndsDispatch]_vars
  /\ [](\A m \in Models : \A i \in 1..Len(disp[m].calls) :
          disp[m].calls[i].result = "threw"
             => (i = Len(disp[m].calls) /\ disp[m].pc = "done"
                 /\ disp[m].promise = "fulfilled"))

\* the stream of A raised after a part had been shown, and the message shows
\* the error alone
C29_Witness ==
  /\ disp["A"].fragments # <<>>
  /\ disp["A"].calls[Len(disp["A"].calls)].result = "threw"
  /\ chatWindows["A"][Len(chatWindows["A"])].html = <<"Error: ", ErrIter>>

\* ------------------------------------------- the grid, one send at a time
\* a step that accepts a send starts from a state in which no send is being
\* processed and no dispatch or fan-out of an earlier send is pending; any
\* step taken while a send is processed leaves the fan-out's message and
\* targets as they are
SendsOneAtATime ==
  /\ sends' # sends =>
        /\ ~isProcessing
        /\ fan.promise # "pending"
        /\ \A m \in Models : disp[m].promise # "pending"
        /\ isProcessing' /\ fan'.promise = "pending"
  /\ isProcessing =>
        /\ sends' = sends
        /\ fan'.message = fan.message /\ fan'.modelIds = fan.modelIds

\* C27: in grid mode handleSend does nothing while isProcessing is set;
\* isProcessing is set exactly from the acceptance of a send until its
\* fan-out has settled, whatever the dispatches' outcomes; so no dispatch is
\* pending outside that span and a fan-out starts only when every dispatch
\* of the one before has ended.
C27_OneFanOutAtATime ==
  /\ [](isProcessing <=> fan.promise = "pending")
  /\ [](\A m \in Models : disp[m].promise = "pending" => isProcessing)
  /\ [][SendsOneAtATime]_vars

\* the second send to A is being processed, its call awaiting the gateway
C27_Witness ==
  /\ sends = 2
  /\ isProcessing
  /\ disp["A"].promise = "pending"

====
